---- MODULE Spec2Model ----
(***************************************************************************)
(* A model of simple_database/main.py: the file-backed table engine        *)
(* (class Table), the registry of tables of one directory (class DataBase) *)
(* and the two factory functions create_database / connect_database.       *)
(*                                                                         *)
(* Python values are records tagged with the name of their type            *)
(* (type(v).__name__).  Strings of the program that the code takes apart   *)
(* (table names, file names) are sequences of tokens, so that              *)
(* '{}.json'.format(name) and file.replace('.json', '') are computed as    *)
(* the code computes them; strings the code only builds (messages, ISO     *)
(* dates) are TLA+ strings.                                                *)
(***************************************************************************)
EXTENDS Integers, Sequences, FiniteSets, TLC

VARIABLES
    fs,       \* the directories under BASE_DB_FILE_PATH and their files
    handles,  \* the DataBase objects the caller holds
    last,     \* the last call: operation, arguments, outcome
    calls     \* the calls in progress: an insert between its json.load and
              \* its write, a generator that query() or all() returned

vars == <<fs, handles, last, calls>>

-----------------------------------------------------------------------------
(* Bounds of the model *)

\* rows a table file may hold before insert is no longer offered
MaxRows == 2
\* files a directory may hold before create_table is no longer offered
MaxTables == 2
\* rows a table file may hold in the specification of the registry
RegistryMaxRows == 1

-----------------------------------------------------------------------------
(* Python values *)

PyNone == [kind |-> "NoneType"]
PyInt(n) == [kind |-> "int", val |-> n]
\* bool is a subclass of int: True == 1, False == 0
PyBool(b) == [kind |-> "bool", val |-> IF b THEN 1 ELSE 0]
PyStr(s) == [kind |-> "str", val |-> s]
PyDate(y, m, d) == [kind |-> "date", y |-> y, m |-> m, d |-> d]
\* datetime.datetime, a subclass of datetime.date
PyDateTime(y, m, d, t) == [kind |-> "datetime", y |-> y, m |-> m, d |-> d, t |-> t]
PyList(items) == [kind |-> "list", val |-> items]

\* The classes a value is an instance of (object left out): the method
\* resolution order of its type.
Mro(kind) ==
    CASE kind = "bool" -> {"bool", "int"}
      [] kind = "datetime" -> {"datetime", "date"}
      [] OTHER -> {kind}

\* isinstance(value, eval(typeName)) for the type names a column may declare
IsInstance(value, typeName) == typeName \in Mro(value.kind)

\* bool(value): None and the empty list are falsy
Truthy(value) ==
    CASE value.kind = "NoneType" -> FALSE
      [] value.kind = "list" -> value.val # <<>>
      [] OTHER -> TRUE

\* value == other, as Python compares the kinds of value the model uses
PyEq(a, b) ==
    CASE a.kind \in {"int", "bool"} /\ b.kind \in {"int", "bool"} -> a.val = b.val
      [] a.kind = "str" /\ b.kind = "str" -> a.val = b.val
      [] a.kind = "NoneType" /\ b.kind = "NoneType" -> TRUE
      [] a.kind = b.kind /\ a.kind \in {"date", "datetime"} -> a = b
      [] OTHER -> FALSE

\* date.isoformat(): 'YYYY-MM-DD'
IsoFormat(value) == value.y \o "-" \o value.m \o "-" \o value.d

\* Whether json.dumps accepts the value (it raises TypeError on a date)
JsonSerializable(value) == value.kind \in {"NoneType", "int", "bool", "str", "list"}

\* ''.join(tokens): a tokenised string as one string
RECURSIVE Join(_)
Join(tokens) == IF tokens = <<>> THEN "" ELSE Head(tokens) \o Join(Tail(tokens))

-----------------------------------------------------------------------------
(* json.dumps: the number of characters of the text it produces.  pretty is  *)
(* FALSE for json.dumps(obj) and TRUE for json.dumps(obj, indent=4); level   *)
(* is the nesting depth of a container.                                      *)

\* indent=4
Indent == 4

RECURSIVE SumSeq(_)
SumSeq(lens) == IF lens = <<>> THEN 0 ELSE Head(lens) + SumSeq(Tail(lens))

\* The decimal digits of a non-negative integer
RECURSIVE Digits(_)
Digits(n) == IF n < 10 THEN 1 ELSE 1 + Digits(n \div 10)

\* A string in quotes (the strings of the model need no escape)
QuotedLen(s) == Len(s) + 2

\* null, true, false, a number, a string
ScalarLen(value) ==
    CASE value.kind = "NoneType" -> 4
      [] value.kind = "bool" -> IF value.val = 1 THEN 4 ELSE 5
      [] value.kind = "int" -> Digits(value.val)
      [] value.kind = "str" -> QuotedLen(value.val)

\* A list or dict of n members whose texts have sum characters together:
\* '[]' or '{}' when empty; else the brackets, the members and, between
\* them, ', ' (compact) or ',' with a newline and the indentation before
\* every member and before the closing bracket (pretty)
ContainerLen(n, sum, pretty, level) ==
    IF n = 0 THEN 2
    ELSE IF ~pretty THEN 2 + sum + 2 * (n - 1)
    ELSE 2 + sum + n * (1 + Indent * (level + 1)) + (n - 1) + 1 + Indent * level

\* '"key": ' followed by a value of len characters
MemberLen(key, len) == QuotedLen(key) + 2 + len

\* One column definition {"name": ..., "type": ...}, inside the list of
\* columns
ColumnLen(col, pretty) ==
    ContainerLen(2, MemberLen("name", QuotedLen(col.name))
                      + MemberLen("type", QuotedLen(col.type)), pretty, 2)

\* The value of 'columns': null or the list of column definitions
ColumnsLen(columns, pretty) ==
    IF columns.kind # "list" THEN ScalarLen(columns)
    ELSE ContainerLen(Len(columns.val),
            SumSeq([i \in 1..Len(columns.val) |-> ColumnLen(columns.val[i], pretty)]),
            pretty, 1)

\* The members of one row, key by key
RECURSIVE RowMembersLen(_, _)
RowMembersLen(row, keys) ==
    IF keys = {} THEN 0
    ELSE LET k == CHOOSE x \in keys : TRUE IN
         MemberLen(k, ScalarLen(row[k])) + RowMembersLen(row, keys \ {k})

\* One row, inside the list of rows
RowLen(row, pretty) ==
    ContainerLen(Cardinality(DOMAIN row), RowMembersLen(row, DOMAIN row), pretty, 2)

\* The value of 'rows'
RowsLen(rows, pretty) ==
    ContainerLen(Len(rows), SumSeq([i \in 1..Len(rows) |-> RowLen(rows[i], pretty)]),
                 pretty, 1)

\* The document {"columns": ..., "rows": ...}
DocumentLen(data, pretty) ==
    ContainerLen(2, MemberLen("columns", ColumnsLen(data.columns, pretty))
                      + MemberLen("rows", RowsLen(data.rows, pretty)), pretty, 0)

-----------------------------------------------------------------------------
(* Paths *)

\* '{}.json'.format(name)
FileName(name) == name \o <<".json">>

\* file.replace('.json', ''): every occurrence is removed
StripJson(file) == SelectSeq(file, LAMBDA tok : tok # ".json")

\* os.path.join(BASE_DB_FILE_PATH, db_name, file_name)
TablePath(dbName, name) == [dir |-> dbName, file |-> FileName(name)]

NoDir == [exists |-> FALSE]
EmptyDir == [exists |-> TRUE, files |-> <<>>]

\* os.path.exists(path) for a table file
FileExists(fsys, path) ==
    fsys[path.dir].exists /\ path.file \in DOMAIN fsys[path.dir].files

\* A table file is the parsed document (columns, rows), the number of
\* characters of the text written last (text) and the number of characters
\* the file holds (size).  A file with size > text has characters of an
\* earlier content after the document.
\*
\* The parsed content of a table file: json.load(tb_file)
ReadFile(fsys, path) == fsys[path.dir].files[path.file]

\* Whether json.load accepts the file: it raises ValueError ('Extra data')
\* when characters follow the document
WellFormed(content) == content.size = content.text

\* The file system with the file at path holding content
WriteFile(fsys, path, content) ==
    [fsys EXCEPT ![path.dir].files =
        [f \in DOMAIN @ \cup {path.file} |-> IF f = path.file THEN content ELSE @[f]]]

-----------------------------------------------------------------------------
(* class Table *)

\* Table._read_columns
ReadColumns(fsys, path) == ReadFile(fsys, path).columns

\* open(path, 'w+') and tb_file.write(json.dumps(default_table)): the file
\* holds the compact text of the empty table and nothing else
DefaultTable(columns) ==
    LET default_table == [columns |-> columns, rows |-> <<>>]
        text == DocumentLen(default_table, FALSE)
    IN  [columns |-> columns, rows |-> <<>>, text |-> text, size |-> text]

\* A construction that writes the empty table whether or not the file exists
TableInitFsAlways(fsys, path, columns) ==
    WriteFile(fsys, path, DefaultTable(columns))

\* Table.__init__ up to the creation of the backing file: the file system
\* afterwards
TableInitFs(fsys, path, columns) ==
    IF ~FileExists(fsys, path)
    THEN WriteFile(fsys, path, DefaultTable(columns))
    ELSE fsys

\* A construction that loads the columns from the file whatever schema it is
\* given
TableInitReadsFile(fsys, name, path, columns) ==
    [kind |-> "Table", name |-> name, table_filepath |-> path,
     columns |-> ReadColumns(fsys, path)]

\* Table.__init__: the Table object; fsys is the file system after
\* TableInitFs
TableInit(fsys, name, path, columns) ==
    [kind |-> "Table", name |-> name, table_filepath |-> path,
     columns |-> IF Truthy(columns) THEN columns ELSE ReadColumns(fsys, path)]

\* A scan that keeps the last mismatch instead of returning at the first
RECURSIVE LastInvalid(_, _, _)
LastInvalid(cols, args, i) ==
    IF i > Len(cols) THEN 0
    ELSE LET later == LastInvalid(cols, args, i + 1) IN
         IF later # 0 THEN later
         ELSE IF ~IsInstance(args[i], cols[i].type) THEN i ELSE 0

\* The loop of Table._validate_row from position i on: the first position
\* whose value is no instance of its column's type, 0 when there is none
RECURSIVE FirstInvalid(_, _, _)
FirstInvalid(cols, args, i) ==
    IF i > Len(cols) THEN 0
    ELSE IF ~IsInstance(args[i], cols[i].type) THEN i
    ELSE FirstInvalid(cols, args, i + 1)

\* The message of a type mismatch at position i
TypeMsg(cols, args, i) ==
    "Invalid type of field \"" \o cols[i].name \o "\": Given \"" \o args[i].kind
        \o "\", expected \"" \o cols[i].type \o "\""

\* A validation that compares the types of the zipped pairs before the
\* number of values
ValidateRowTypesFirst(cols, args) ==
    LET n == IF Len(args) < Len(cols) THEN Len(args) ELSE Len(cols)
        bad == {i \in 1..n : ~IsInstance(args[i], cols[i].type)}
    IN  IF bad # {}
        THEN [valid |-> FALSE,
              msg |-> TypeMsg(cols, args, CHOOSE i \in bad : \A j \in bad : i <= j)]
        ELSE IF Len(args) # Len(cols)
        THEN [valid |-> FALSE, msg |-> "Invalid amount of fields."]
        ELSE [valid |-> TRUE, msg |-> "None"]

\* Table._validate_row, for columns that are a list
ValidateRow(cols, args) ==
    IF Len(args) # Len(cols)
    THEN [valid |-> FALSE, msg |-> "Invalid amount of fields."]
    ELSE LET i == FirstInvalid(cols, args, 1) IN
         IF i # 0 THEN [valid |-> FALSE, msg |-> TypeMsg(cols, args, i)]
         ELSE [valid |-> TRUE, msg |-> "None"]

\* One value of Table._format_row: a value whose type is named 'date' is
\* stored as its ISO string
FormatValue(value) == IF value.kind = "date" THEN PyStr(IsoFormat(value)) ELSE value

\* The loop of Table._format_row from position i on: row[col_name] is
\* assigned position by position, a later assignment replacing an earlier
RECURSIVE FormatFrom(_, _, _, _)
FormatFrom(cols, args, i, row) ==
    IF i > Len(cols) THEN row
    ELSE FormatFrom(cols, args, i + 1,
            [k \in DOMAIN row \cup {cols[i].name} |->
                IF k = cols[i].name THEN FormatValue(args[i]) ELSE row[k]])

\* Table._format_row
FormatRow(cols, args) == FormatFrom(cols, args, 1, <<>>)

\* Whether json.dumps accepts the row
RowSerializable(row) == \A k \in DOMAIN row : JsonSerializable(row[k])

\* open(path, 'r+'), tb_file.seek(0) and
\* tb_file.write(json.dumps(data, indent=4)): the text is written over the
\* content from the first character on and the file is not truncated, so
\* what the old content has beyond the new text stays in the file
Rewrite(content, data) ==
    LET text == DocumentLen(data, TRUE) IN
    [columns |-> data.columns, rows |-> data.rows, text |-> text,
     size |-> IF text >= content.size THEN text ELSE content.size]

\* An insertion that puts the row in front of the stored rows
InsertRowFirst(content, row) ==
    IF RowSerializable(row)
    THEN Rewrite(content, [columns |-> content.columns, rows |-> <<row>> \o content.rows])
    ELSE content

\* An insertion that writes back the new row only
InsertRowOnly(content, row) ==
    IF RowSerializable(row)
    THEN Rewrite(content, [columns |-> content.columns, rows |-> <<row>>])
    ELSE content

\* An insertion that writes the rows back without the columns
InsertRowDropsColumns(content, row) ==
    IF RowSerializable(row)
    THEN Rewrite(content, [columns |-> PyNone, rows |-> Append(content.rows, row)])
    ELSE content

\* Table._insert_row: the file content afterwards; json.dumps raises before
\* anything is written when a value is not serializable
InsertRow(content, row) ==
    IF RowSerializable(row)
    THEN Rewrite(content, [columns |-> content.columns, rows |-> Append(content.rows, row)])
    ELSE content

\* A rewrite that appends the row to the rows the file holds when it is
\* written, as if the file were locked from the read to the write
InsertWriteLocked(disk, data, row) ==
    IF RowSerializable(row)
    THEN Rewrite(disk, [columns |-> disk.columns, rows |-> Append(disk.rows, row)])
    ELSE disk

\* Table._insert_row from data['rows'].append(row) on, for the document
\* data that json.load returned and the content disk the file holds by
\* now: the file content afterwards
InsertWrite(disk, data, row) ==
    IF RowSerializable(row)
    THEN Rewrite(disk, [columns |-> data.columns, rows |-> Append(data.rows, row)])
    ELSE disk

\* Table.insert: how the call ends
InsertOutcome(table, args) ==
    IF table.columns.kind # "list" THEN [status |-> "TypeError", msg |-> "len"]
    ELSE LET v == ValidateRow(table.columns.val, args) IN
         IF ~v.valid THEN [status |-> "ValidationError", msg |-> v.msg]
         ELSE IF ~RowSerializable(FormatRow(table.columns.val, args))
         THEN [status |-> "TypeError", msg |-> "json"]
         ELSE [status |-> "ok", msg |-> "True"]

\* Table.insert: the file system afterwards
InsertFs(fsys, table, args) ==
    IF InsertOutcome(table, args).status = "ok"
    THEN WriteFile(fsys, table.table_filepath,
            InsertRow(ReadFile(fsys, table.table_filepath),
                      FormatRow(table.columns.val, args)))
    ELSE fsys

\* RowModel.__init__: one attribute per key of the row
RowModel(row) == [k \in DOMAIN row |-> row[k]]

\* dict.get(key): None for a key the row does not hold
RowGet(row, key) == IF key \in DOMAIN row THEN row[key] ELSE PyNone

\* The test of Table.query on one row
RowMatches(row, kwargs) == \A key \in DOMAIN kwargs : PyEq(RowGet(row, key), kwargs[key])

\* The loop of Table.query from row i on
RECURSIVE QueryFrom(_, _, _)
QueryFrom(rows, kwargs, i) ==
    IF i > Len(rows) THEN <<>>
    ELSE IF ~RowMatches(rows[i], kwargs) THEN QueryFrom(rows, kwargs, i + 1)
    ELSE <<RowModel(rows[i])>> \o QueryFrom(rows, kwargs, i + 1)

\* The loop of Table.query / Table.all from row i on, up to its next yield:
\* the position of the row it yields, 0 when the loop ends
RECURSIVE NextYield(_, _, _)
NextYield(rows, kwargs, i) ==
    IF i > Len(rows) THEN 0
    ELSE IF RowMatches(rows[i], kwargs) THEN i
    ELSE NextYield(rows, kwargs, i + 1)

\* Table.query, run to its end
Query(fsys, table, kwargs) == QueryFrom(ReadFile(fsys, table.table_filepath).rows, kwargs, 1)

\* An all() that does not see the row written last
AllButLast(fsys, table) ==
    LET rows == ReadFile(fsys, table.table_filepath).rows IN
    [i \in 1..(Len(rows) - 1) |-> RowModel(rows[i])]

\* Table.all, run to its end
All(fsys, table) ==
    LET rows == ReadFile(fsys, table.table_filepath).rows IN
    [i \in 1..Len(rows) |-> RowModel(rows[i])]

\* Table.count
Count(fsys, table) == Len(ReadFile(fsys, table.table_filepath).rows)

\* Table.describe
Describe(table) == table.columns

-----------------------------------------------------------------------------
(* class DataBase: an object is its attribute dictionary *)

AttrName == <<"name">>
AttrTables == <<"tables">>
AttrDbFilepath == <<"db_filepath">>

\* setattr(self, attr, value)
SetAttr(attrs, attr, value) ==
    [a \in DOMAIN attrs \cup {attr} |-> IF a = attr THEN value ELSE attrs[a]]

\* '{}'.format(value) for a string or a Table object
Format(value) ==
    IF value.kind = "str" THEN value.val ELSE "<simple_database.main.Table object>"

\* The orders in which os.listdir may return the members of a set of
\* files: every permutation
RECURSIVE Listings(_)
Listings(files) ==
    IF files = {} THEN {<<>>}
    ELSE UNION {{<<f>> \o rest : rest \in Listings(files \ {f})} : f \in files}

\* The list comprehension of DataBase._read_tables
RECURSIVE TableNamesOf(_)
TableNamesOf(listing) ==
    IF listing = <<>> THEN <<>>
    ELSE <<StripJson(Head(listing))>> \o TableNamesOf(Tail(listing))

\* The loop of DataBase._read_tables from name i on.  st is the file system,
\* the object's attributes and how the loop stands; Table.__init__ raises
\* TypeError in os.path.join when self.db.name is no string.
RECURSIVE ReadTablesFrom(_, _, _)
ReadTablesFrom(st, names, i) ==
    IF i > Len(names) \/ st.status # "ok" THEN st
    ELSE IF st.attrs[AttrName].kind # "str"
    THEN [st EXCEPT !.status = "TypeError"]
    ELSE LET path == TablePath(st.attrs[AttrName].val, names[i])
             fs1 == TableInitFs(st.fs, path, PyNone)
             table == TableInit(fs1, names[i], path, PyNone)
         IN  IF ~WellFormed(ReadFile(fs1, path))
             THEN [st EXCEPT !.fs = fs1, !.status = "ValueError"]
             ELSE ReadTablesFrom([fs |-> fs1,
                                  attrs |-> SetAttr(st.attrs, names[i], table),
                                  status |-> "ok"], names, i + 1)

\* DataBase.__init__ over an existing directory whose os.listdir is listing:
\* the file system, the attributes of the object and how the call ends
DataBaseInit(fsys, name, listing) ==
    LET attrs0 == SetAttr(SetAttr(<<>>, AttrName, PyStr(name)),
                          AttrDbFilepath, PyStr(name))
        names == TableNamesOf(listing)
        st == ReadTablesFrom([fs |-> fsys, attrs |-> attrs0, status |-> "ok"], names, 1)
    IN  IF st.status # "ok" THEN st
        ELSE [st EXCEPT !.attrs = SetAttr(@, AttrTables, PyList(names))]

\* A creation that does not look whether the directory exists
CreateOutcomeNoCheck(fsys, name) == [status |-> "ok", msg |-> "None"]

\* DataBase.create: how the call ends
CreateOutcome(fsys, name) ==
    IF fsys[name].exists
    THEN [status |-> "ValidationError",
          msg |-> "Database with name \"" \o name \o "\" already exists."]
    ELSE [status |-> "ok", msg |-> "None"]

\* DataBase.create: the file system afterwards
CreateFs(fsys, name) ==
    IF fsys[name].exists THEN fsys ELSE [fsys EXCEPT ![name] = EmptyDir]

\* DataBase.create_table: how the call ends
CreateTableOutcome(attrs, table_name) ==
    IF attrs[AttrTables].kind # "list"
    THEN [status |-> "TypeError", msg |-> "in"]
    ELSE IF \E i \in 1..Len(attrs[AttrTables].val) : attrs[AttrTables].val[i] = table_name
    THEN [status |-> "ValidationError",
          msg |-> "Table with name \"" \o Join(table_name) \o "\" in DB \""
                    \o Format(attrs[AttrName]) \o "\" already exist."]
    ELSE IF attrs[AttrName].kind # "str"
    THEN [status |-> "TypeError", msg |-> "join"]
    ELSE [status |-> "ok", msg |-> "True"]

\* DataBase.create_table: the file system afterwards
CreateTableFs(fsys, attrs, table_name, columns) ==
    IF CreateTableOutcome(attrs, table_name).status = "ok"
    THEN TableInitFs(fsys, TablePath(attrs[AttrName].val, table_name), columns)
    ELSE fsys

\* DataBase.create_table: the attributes of the object afterwards
CreateTableAttrs(fsys, attrs, table_name, columns) ==
    IF CreateTableOutcome(attrs, table_name).status = "ok"
    THEN LET path == TablePath(attrs[AttrName].val, table_name)
             new_table == TableInit(CreateTableFs(fsys, attrs, table_name, columns),
                                    table_name, path, columns)
             appended == [attrs EXCEPT ![AttrTables].val = Append(@, table_name)]
         IN  SetAttr(appended, table_name, new_table)
    ELSE attrs

\* DataBase.show_tables
ShowTables(attrs) == attrs[AttrTables]

-----------------------------------------------------------------------------
(* The calls a caller makes *)

DbNames == {"db"}

ColsA == PyList(<<[name |-> "id", type |-> "int"], [name |-> "day", type |-> "date"]>>)
\* a schema whose column names are not unique
ColsB == PyList(<<[name |-> "k", type |-> "str"], [name |-> "k", type |-> "str"]>>)
Schemas == {ColsA, ColsB}

Day1 == PyDate("2020", "01", "02")
Values == {PyInt(1), PyBool(TRUE), PyStr("x"), PyStr("y"), Day1,
           PyDateTime("2020", "01", "02", "03:04:05")}
ArgLengths == 1..2
ArgLists == UNION {[1..n -> Values] : n \in ArgLengths}

Predicates ==
    {<<>>, [key \in {"id"} |-> PyInt(1)], [key \in {"k"} |-> PyStr("x")],
     [key \in {"nokey"} |-> PyNone],
     [key \in {"id", "day"} |-> IF key = "id" THEN PyBool(TRUE) ELSE PyStr(IsoFormat(Day1))]}

\* The table engine: two registry objects over one directory, one table
\* name, both schemas, every argument list
HandleIds == {"h1", "h2"}
TableNames == {<<"t">>}

\* The registry: two registry objects over one directory, table names that
\* meet '.json' and the attributes of the registry object, one schema, few
\* rows
RegistryTableNames == {<<"t">>, <<"t", ".json">>, <<"tables">>, <<"name">>}
RegistrySchemas == {ColsA}
RegistryArgLists == {<<PyInt(1), Day1>>, <<PyStr("x")>>}
RegistryPredicates == {<<>>}

\* Two tables side by side: two registry objects over one directory, two
\* table names, both schemas, one argument list that fits each schema and
\* one that fits neither
FrameTableNames == {<<"t">>, <<"u">>}
FrameArgLists == {<<PyInt(1), Day1>>, <<PyStr("x"), PyStr("y")>>, <<PyStr("x")>>}

\* The callers: threads of one process or processes, each making one call
\* at a time
Procs == {"p1", "p2"}

\* No call of the caller is in progress
Idle == [pc |-> "idle"]

\* Interleaved inserts: rows whose texts differ in length, a wrong number
\* of values, a datetime
RaceArgLists ==
    {<<PyInt(1), Day1>>, <<PyBool(TRUE), Day1>>, <<PyStr("x")>>,
     <<PyInt(1), PyDateTime("2020", "01", "02", "03:04:05")>>}

\* Generators: a predicate that the rows of the model match and one that
\* no row matches
StreamPredicates == {[key \in {"id"} |-> PyInt(1)], [key \in {"id"} |-> PyStr("x")]}

NoHandle == PyNone
DataBase(attrs) == [kind |-> "DataBase", attrs |-> attrs]

\* The names under which the object h exposes a Table
TablesOf(h) ==
    IF handles[h].kind # "DataBase" THEN {}
    ELSE {n \in DOMAIN handles[h].attrs : handles[h].attrs[n].kind = "Table"}

Init ==
    /\ fs = [d \in DbNames |-> NoDir]
    /\ handles = [h \in HandleIds |-> NoHandle]
    /\ last = [op |-> "init"]
    /\ calls = [p \in Procs |-> Idle]

\* db = create_database(name), the caller keeping the result as h
CreateDatabase(h, name) ==
    LET out == CreateOutcome(fs, name)
        init == DataBaseInit(CreateFs(fs, name), name, <<>>)
    IN  /\ last' = [op |-> "create_database", h |-> h, name |-> name,
                    status |-> out.status, msg |-> out.msg]
        /\ UNCHANGED calls
        /\ IF out.status = "ok"
           THEN /\ fs' = init.fs
                /\ handles' = [handles EXCEPT ![h] = DataBase(init.attrs)]
           ELSE UNCHANGED <<fs, handles>>

\* db = connect_database(name), the caller keeping the result as h
ConnectDatabase(h, name) ==
    IF ~fs[name].exists
    THEN /\ last' = [op |-> "connect_database", h |-> h, name |-> name,
                     status |-> "OSError", msg |-> "listdir"]
         /\ UNCHANGED <<fs, handles, calls>>
    ELSE \E listing \in Listings(DOMAIN fs[name].files) :
            LET init == DataBaseInit(fs, name, listing) IN
            /\ last' = [op |-> "connect_database", h |-> h, name |-> name,
                        status |-> init.status, msg |-> "None"]
            /\ UNCHANGED calls
            /\ fs' = init.fs
            /\ handles' = IF init.status = "ok"
                          THEN [handles EXCEPT ![h] = DataBase(init.attrs)]
                          ELSE handles

\* h.create_table(table_name, columns)
CreateTable(h, table_name, columns) ==
    /\ handles[h].kind = "DataBase"
    /\ LET attrs == handles[h].attrs
           out == CreateTableOutcome(attrs, table_name)
       IN  /\ (out.status = "ok"
                 /\ ~FileExists(fs, TablePath(attrs[AttrName].val, table_name)))
              => Cardinality(DOMAIN fs[attrs[AttrName].val].files) < MaxTables
           /\ last' = [op |-> "create_table", h |-> h, table |-> table_name,
                       columns |-> columns, status |-> out.status, msg |-> out.msg]
           /\ fs' = CreateTableFs(fs, attrs, table_name, columns)
           /\ UNCHANGED calls
           /\ handles' = [handles EXCEPT
                 ![h].attrs = CreateTableAttrs(fs, attrs, table_name, columns)]

\* h.<n>.insert(*args)
Insert(h, n, args, maxRows) ==
    /\ n \in TablesOf(h)
    /\ LET table == handles[h].attrs[n]
           out == InsertOutcome(table, args)
       IN  /\ out.status = "ok" => Count(fs, table) < maxRows
           /\ last' = [op |-> "insert", h |-> h, table |-> n, args |-> args,
                       status |-> out.status, msg |-> out.msg]
           /\ fs' = InsertFs(fs, table, args)
           /\ UNCHANGED <<handles, calls>>

\* list(h.<n>.query(**kwargs))
QueryCall(h, n, kwargs) ==
    /\ n \in TablesOf(h)
    /\ last' = [op |-> "query", h |-> h, table |-> n, kwargs |-> kwargs,
                status |-> "ok", value |-> Query(fs, handles[h].attrs[n], kwargs)]
    /\ UNCHANGED <<fs, handles, calls>>

\* list(h.<n>.all())
AllCall(h, n) ==
    /\ n \in TablesOf(h)
    /\ last' = [op |-> "all", h |-> h, table |-> n,
                status |-> "ok", value |-> All(fs, handles[h].attrs[n])]
    /\ UNCHANGED <<fs, handles, calls>>

\* h.<n>.count()
CountCall(h, n) ==
    /\ n \in TablesOf(h)
    /\ last' = [op |-> "count", h |-> h, table |-> n,
                status |-> "ok", value |-> Count(fs, handles[h].attrs[n])]
    /\ UNCHANGED <<fs, handles, calls>>

\* h.<n>.describe()
DescribeCall(h, n) ==
    /\ n \in TablesOf(h)
    /\ last' = [op |-> "describe", h |-> h, table |-> n,
                status |-> "ok", value |-> Describe(handles[h].attrs[n])]
    /\ UNCHANGED <<fs, handles, calls>>

\* h.show_tables()
ShowTablesCall(h) ==
    /\ handles[h].kind = "DataBase"
    /\ last' = [op |-> "show_tables", h |-> h,
                status |-> "ok", value |-> ShowTables(handles[h].attrs)]
    /\ UNCHANGED <<fs, handles, calls>>

\* p calls h.<n>.insert(*args), up to the json.load of _insert_row: the
\* call raises from the validation or from json.load, or it holds the
\* loaded document with the file open
InsertLoad(p, h, n, args, maxRows) ==
    /\ calls[p].pc # "loaded"
    /\ n \in TablesOf(h)
    /\ LET table == handles[h].attrs[n]
           out == InsertOutcome(table, args)
           content == ReadFile(fs, table.table_filepath)
           raised == IF out.status = "ValidationError" \/ out.msg = "len" THEN out
                     ELSE IF ~WellFormed(content)
                     THEN [status |-> "ValueError", msg |-> "json.load"]
                     ELSE [status |-> "ok", msg |-> "None"]
       IN  IF raised.status # "ok"
           THEN /\ last' = [op |-> "insert", p |-> p, h |-> h, table |-> n, args |-> args,
                            status |-> raised.status, msg |-> raised.msg]
                /\ calls' = [calls EXCEPT ![p] = [pc |-> "raised", status |-> raised.status]]
           ELSE /\ Len(content.rows) < maxRows
                /\ last' = [op |-> "json.load", p |-> p, h |-> h, table |-> n, args |-> args]
                /\ calls' = [calls EXCEPT ![p] =
                      [pc |-> "loaded", table_filepath |-> table.table_filepath,
                       row |-> FormatRow(table.columns.val, args),
                       data |-> [columns |-> content.columns, rows |-> content.rows]]]
    /\ UNCHANGED <<fs, handles>>

\* The insert of p goes on from its json.load to its end: it appends the
\* row to the loaded document, writes the text from offset 0 and returns
\* True, or json.dumps raises TypeError and nothing is written
InsertStore(p) ==
    /\ calls[p].pc = "loaded"
    /\ LET c == calls[p]
           status == IF RowSerializable(c.row) THEN "ok" ELSE "TypeError"
       IN  /\ fs' = WriteFile(fs, c.table_filepath,
                        InsertWrite(ReadFile(fs, c.table_filepath), c.data, c.row))
           /\ last' = [op |-> "insert", p |-> p, status |-> status,
                       msg |-> IF status = "ok" THEN "True" ELSE "json"]
           /\ calls' = [calls EXCEPT ![p] =
                 [pc |-> "returned", status |-> status,
                  table_filepath |-> c.table_filepath, row |-> c.row, data |-> c.data]]
    /\ UNCHANGED handles

\* g = h.<n>.query(**kwargs), the caller p keeping the generator: no line of
\* the body runs before the first next(g)
QueryStart(p, h, n, kwargs) ==
    /\ calls[p].pc = "idle"
    /\ n \in TablesOf(h)
    /\ calls' = [calls EXCEPT ![p] =
          [pc |-> "created", op |-> "query", advancing |-> TRUE,
           table_filepath |-> handles[h].attrs[n].table_filepath, kwargs |-> kwargs]]
    /\ last' = [op |-> "query()", p |-> p, h |-> h, table |-> n, kwargs |-> kwargs]
    /\ UNCHANGED <<fs, handles>>

\* g = h.<n>.all(), the caller p keeping the generator: all() is the loop of
\* query() without a test
AllStart(p, h, n) ==
    /\ calls[p].pc = "idle"
    /\ n \in TablesOf(h)
    /\ calls' = [calls EXCEPT ![p] =
          [pc |-> "created", op |-> "all", advancing |-> TRUE,
           table_filepath |-> handles[h].attrs[n].table_filepath, kwargs |-> <<>>]]
    /\ last' = [op |-> "all()", p |-> p, h |-> h, table |-> n]
    /\ UNCHANGED <<fs, handles>>

\* next(g): the first one opens the file and loads the rows; the body runs
\* to its next yield, where it stays inside the with block, or to the end of
\* the loop, where the with block closes the file and StopIteration is
\* raised
Advance(p) ==
    /\ calls[p].pc \in {"created", "suspended"}
    /\ calls[p].advancing
    /\ LET c == calls[p]
           rows == IF c.pc = "created" THEN ReadFile(fs, c.table_filepath).rows
                   ELSE c.rows
           j == NextYield(rows, c.kwargs, IF c.pc = "created" THEN 1 ELSE c.i + 1)
       IN  IF j # 0
           THEN /\ calls' = [calls EXCEPT ![p] =
                      [pc |-> "suspended", op |-> c.op, advancing |-> TRUE,
                       table_filepath |-> c.table_filepath, kwargs |-> c.kwargs,
                       rows |-> rows, i |-> j]]
                /\ last' = [op |-> "next", p |-> p, status |-> "ok",
                            value |-> RowModel(rows[j])]
           ELSE /\ calls' = [calls EXCEPT ![p] = [pc |-> "exhausted", op |-> c.op]]
                /\ last' = [op |-> "next", p |-> p, status |-> "StopIteration"]
    /\ UNCHANGED <<fs, handles>>

\* The caller p has what it wanted from g and calls next(g) no more; it
\* still holds g
StopAdvancing(p) ==
    /\ calls[p].pc \in {"created", "suspended"}
    /\ calls[p].advancing
    /\ calls' = [calls EXCEPT ![p].advancing = FALSE]
    /\ last' = [op |-> "stop", p |-> p]
    /\ UNCHANGED <<fs, handles>>

\* The caller p lets go of g (del g, g.close(), the end of its scope):
\* GeneratorExit is raised at the yield and the with block closes the file
Discard(p) ==
    /\ calls[p].pc \in {"created", "suspended", "exhausted"}
    /\ calls' = [calls EXCEPT ![p] = Idle]
    /\ last' = [op |-> "close", p |-> p]
    /\ UNCHANGED <<fs, handles>>

\* The callers whose call has a table file open: inside 'with open(...)' of
\* _insert_row, query or all
OpenFiles(cs) == {p \in Procs : cs[p].pc \in {"loaded", "suspended"}}

\* One call, by a caller that names tables from N and passes schemas from
\* S, argument lists from A and predicates from P
Call(N, S, A, P, maxRows) ==
    \/ \E h \in HandleIds, name \in DbNames : CreateDatabase(h, name)
    \/ \E h \in HandleIds, name \in DbNames : ConnectDatabase(h, name)
    \/ \E h \in HandleIds, n \in N, columns \in S : CreateTable(h, n, columns)
    \/ \E h \in HandleIds, n \in N, args \in A : Insert(h, n, args, maxRows)
    \/ \E h \in HandleIds, n \in N, kwargs \in P : QueryCall(h, n, kwargs)
    \/ \E h \in HandleIds, n \in N : AllCall(h, n)
    \/ \E h \in HandleIds, n \in N : CountCall(h, n)
    \/ \E h \in HandleIds, n \in N : DescribeCall(h, n)
    \/ \E h \in HandleIds : ShowTablesCall(h)

Next == Call(TableNames, Schemas, ArgLists, Predicates, MaxRows)

Spec == Init /\ [][Next]_vars

RegistryNext ==
    Call(RegistryTableNames, RegistrySchemas, RegistryArgLists, RegistryPredicates,
         RegistryMaxRows)

RegistrySpec == Init /\ [][RegistryNext]_vars

\* Two callers whose inserts into one table interleave: the registry calls
\* one at a time, each insert in two steps
RaceNext ==
    \/ \E h \in HandleIds, name \in DbNames : CreateDatabase(h, name)
    \/ \E h \in HandleIds, name \in DbNames : ConnectDatabase(h, name)
    \/ \E h \in HandleIds, n \in TableNames, columns \in RegistrySchemas :
          CreateTable(h, n, columns)
    \/ \E p \in Procs, h \in HandleIds, n \in TableNames, args \in RaceArgLists :
          InsertLoad(p, h, n, args, MaxRows)
    \/ \E p \in Procs : InsertStore(p)

RaceSpec == Init /\ [][RaceNext]_vars

\* Callers that keep the generators of query() and all() and advance them
\* between the other calls, every call but next() running to its end
StreamNext ==
    \/ \E h \in HandleIds, name \in DbNames : CreateDatabase(h, name)
    \/ \E h \in HandleIds, n \in TableNames, columns \in RegistrySchemas :
          CreateTable(h, n, columns)
    \/ \E h \in HandleIds, n \in TableNames, args \in RegistryArgLists :
          Insert(h, n, args, MaxRows)
    \/ \E h \in HandleIds, n \in TableNames : CountCall(h, n)
    \/ \E h \in HandleIds, n \in TableNames : DescribeCall(h, n)
    \/ \E p \in Procs, h \in HandleIds, n \in TableNames, kwargs \in StreamPredicates :
          QueryStart(p, h, n, kwargs)
    \/ \E p \in Procs, h \in HandleIds, n \in TableNames : AllStart(p, h, n)
    \/ \E p \in Procs : Advance(p)
    \/ \E p \in Procs : StopAdvancing(p)
    \/ \E p \in Procs : Discard(p)

StreamSpec == Init /\ [][StreamNext]_vars

FrameNext ==
    Call(FrameTableNames, Schemas, FrameArgLists, RegistryPredicates, RegistryMaxRows)

FrameSpec == Init /\ [][FrameNext]_vars

-----------------------------------------------------------------------------
(* Properties of Table.insert *)

\* The step is a call of insert on a table whose schema is a list
InsertStep ==
    /\ last'.op = "insert"
    /\ handles[last'.h].attrs[last'.table].columns.kind = "list"

\* The Table object, the schema and the arguments of the insert of the step
StepTable == handles[last'.h].attrs[last'.table]
StepCols == StepTable.columns.val
StepArgs == last'.args

\* The rows of the step's table file before and after the step
RowsBefore == ReadFile(fs, StepTable.table_filepath).rows
RowsAfter == ReadFile(fs', StepTable.table_filepath).rows

\* What all() shows for an inserted value: a date as 'YYYY-MM-DD', any other
\* value as it is
Shown(value) ==
    IF value.kind = "date" THEN PyStr(value.y \o "-" \o value.m \o "-" \o value.d)
    ELSE value

\* The last row all() yields after the step holds, for every column, the
\* value inserted at the column's position
LastRowShowsArgs ==
    LET rows == All(fs', StepTable)
        row == rows[Len(rows)]
    IN  /\ Len(rows) >= 1
        /\ DOMAIN row = {StepCols[i].name : i \in 1..Len(StepCols)}
        /\ \A i \in 1..Len(StepCols) : row[StepCols[i].name] = Shown(StepArgs[i])

DistinctNames(cols) ==
    \A i, j \in 1..Len(cols) : cols[i].name = cols[j].name => i = j

\* C1, as stated: every insert that returns success raises count() by
\* exactly 1, and the last row of all() has one field per column holding the
\* inserted value of that position (a date as its ISO-8601 string).
C1_InsertAppendsEveryTable ==
    [][(InsertStep /\ last'.status = "ok")
        => /\ Count(fs', StepTable) = Count(fs, StepTable) + 1
           /\ LastRowShowsArgs]_vars

\* C1, amended: for every table whose column names are pairwise distinct,
\* every insert that returns success raises count() by exactly 1, and the
\* last row of all() has one field per column holding the inserted value of
\* that position (a date as its ISO-8601 string).
C1_InsertAppends ==
    [][(InsertStep /\ last'.status = "ok" /\ DistinctNames(StepCols))
        => /\ Count(fs', StepTable) = Count(fs, StepTable) + 1
           /\ LastRowShowsArgs]_vars

\* A successful insert of an int and a date into a table that already held a
\* row
C1_Witness ==
    /\ last.op = "insert" /\ last.status = "ok"
    /\ last.args = <<PyInt(1), Day1>>
    /\ LET table == handles[last.h].attrs[last.table] IN
       /\ table.columns = ColsA
       /\ Count(fs, table) = 2
       /\ All(fs, table)[2] = [key \in {"id", "day"} |->
                                 IF key = "id" THEN PyInt(1) ELSE PyStr("2020-01-02")]
       /\ All(fs, table)[1] # All(fs, table)[2]

\* C2: insert with a number of values different from the number of schema
\* columns fails with ValidationError 'Invalid amount of fields.', whatever
\* the kinds of the values, and leaves the rows of the table and count()
\* unchanged.
C2_WrongArityRejected ==
    [][(InsertStep /\ Len(StepArgs) # Len(StepCols))
        => /\ last'.status = "ValidationError"
           /\ last'.msg = "Invalid amount of fields."
           /\ RowsAfter = RowsBefore
           /\ Count(fs', StepTable) = Count(fs, StepTable)]_vars

\* An insert of one value of the wrong kind into a two-column table that
\* holds a row was refused for its arity
C2_Witness ==
    /\ last.op = "insert" /\ last.status = "ValidationError"
    /\ last.msg = "Invalid amount of fields."
    /\ last.args = <<PyStr("x")>>
    /\ handles[last.h].attrs[last.table].columns = ColsA
    /\ Count(fs, handles[last.h].attrs[last.table]) = 1

\* The positions at which the value is no instance of the column's type
Mismatches(cols, args) == {i \in 1..Len(cols) : ~IsInstance(args[i], cols[i].type)}

\* C3: insert with the right number of values, at least one of a kind that
\* does not match its column's declared type, fails with ValidationError
\* whose message names the leftmost mismatching column with the given and
\* the expected kind, and leaves the rows of the table and count() unchanged.
C3_LeftmostMismatchReported ==
    [][(InsertStep /\ Len(StepArgs) = Len(StepCols)
          /\ Mismatches(StepCols, StepArgs) # {})
        => LET bad == Mismatches(StepCols, StepArgs)
               i == CHOOSE k \in bad : \A j \in bad : k <= j
           IN  /\ last'.status = "ValidationError"
               /\ last'.msg = "Invalid type of field \"" \o StepCols[i].name
                                \o "\": Given \"" \o StepArgs[i].kind
                                \o "\", expected \"" \o StepCols[i].type \o "\""
               /\ RowsAfter = RowsBefore
               /\ Count(fs', StepTable) = Count(fs, StepTable)]_vars

\* An insert whose two values both mismatch was refused for the first one,
\* on a table that holds a row
C3_Witness ==
    /\ last.op = "insert" /\ last.status = "ValidationError"
    /\ last.args = <<PyStr("x"), PyInt(1)>>
    /\ last.msg = "Invalid type of field \"id\": Given \"str\", expected \"int\""
    /\ handles[last.h].attrs[last.table].columns = ColsA
    /\ Count(fs, handles[last.h].attrs[last.table]) = 1

-----------------------------------------------------------------------------
(* Properties of Table.query *)

\* The rows among rows that hold, for every key of the predicate, a field of
\* that name equal to the predicate's value
Matching(rows, kwargs) ==
    SelectSeq(rows, LAMBDA row :
        \A key \in DOMAIN kwargs : key \in DOMAIN row /\ PyEq(row[key], kwargs[key]))

\* C4: for every table state and every predicate, query(predicate) yields,
\* in stored order, exactly the rows of all() for which every predicate key
\* equals the row's stored value for that key; query with the empty
\* predicate yields the same sequence as all().
C4_QueryIsFilterOfAll ==
    \A h \in HandleIds : \A n \in TablesOf(h) : \A kwargs \in Predicates :
        LET table == handles[h].attrs[n] IN
        /\ Query(fs, table, kwargs) = Matching(All(fs, table), kwargs)
        /\ Query(fs, table, <<>>) = All(fs, table)

-----------------------------------------------------------------------------
(* Properties of the registry *)

\* Whether the Python list holds x
Contains(list, x) == \E i \in 1..Len(list) : list[i] = x

\* Whether show_tables() of the object is a list that holds the name
InShowTables(attrs, name) ==
    ShowTables(attrs).kind = "list" /\ Contains(ShowTables(attrs).val, name)

\* The attributes, before and after the step, of the registry object the
\* step's call is made on or assigned to
OldAttrs == handles[last'.h].attrs
NewAttrs == handles'[last'.h].attrs

\* C5: a new handle obtained by connect_database over the same directory
\* returns the identical show_tables() sequence and, for every table, the
\* identical describe() and all() rows as the old handle returned just
\* before.
C5_ReconnectRoundTrip ==
    [][(last'.op = "connect_database" /\ last'.status = "ok"
          /\ handles[last'.h].kind = "DataBase")
        => /\ ShowTables(NewAttrs) = ShowTables(OldAttrs)
           /\ \A n \in DOMAIN OldAttrs :
                OldAttrs[n].kind = "Table"
                => /\ n \in DOMAIN NewAttrs
                   /\ NewAttrs[n].kind = "Table"
                   /\ Describe(NewAttrs[n]) = Describe(OldAttrs[n])
                   /\ All(fs', NewAttrs[n]) = All(fs, OldAttrs[n])]_vars

\* C6: create_database(name) fails with ValidationError ('Database with name
\* "<name>" already exists.') whenever the directory exists, leaving the
\* directory and its tables unchanged; when the directory does not exist it
\* succeeds, creates the directory, and show_tables() of the returned handle
\* is empty.
C6_CreateDatabase ==
    [][last'.op = "create_database"
        => IF fs[last'.name].exists
           THEN /\ last'.status = "ValidationError"
                /\ last'.msg = "Database with name \"" \o last'.name
                                 \o "\" already exists."
                /\ fs' = fs
                /\ handles' = handles
           ELSE /\ last'.status = "ok"
                /\ fs'[last'.name].exists
                /\ DOMAIN fs'[last'.name].files = {}
                /\ handles'[last'.h].kind = "DataBase"
                /\ ShowTables(NewAttrs) = PyList(<<>>)]_vars

\* create_database was refused over a directory that holds a table with a
\* row
C6_Witness ==
    /\ last.op = "create_database" /\ last.status = "ValidationError"
    /\ fs[last.name].exists
    /\ \E f \in DOMAIN fs[last.name].files : Len(fs[last.name].files[f].rows) >= 1

\* C7: create_table(name, schema) on a handle whose show_tables() already
\* contains name fails with ValidationError ('Table with name "<name>" in DB
\* "<db_name>" already exist.') and leaves show_tables(), the existing
\* table's schema and its persisted rows unchanged.
C7_KnownTableRejected ==
    [][(last'.op = "create_table" /\ InShowTables(OldAttrs, last'.table))
        => /\ last'.status = "ValidationError"
           /\ last'.msg = "Table with name \"" \o Join(last'.table) \o "\" in DB \""
                            \o OldAttrs[AttrDbFilepath].val \o "\" already exist."
           /\ ShowTables(NewAttrs) = ShowTables(OldAttrs)
           /\ fs' = fs
           /\ handles' = handles]_vars

\* C8: for every handle and every name not in that handle's show_tables(),
\* create_table(name, schema) succeeds, name is in show_tables() immediately
\* afterwards, and count() of the new table is 0.
C8_UnknownTableCreatedEmpty ==
    [][(last'.op = "create_table" /\ ~InShowTables(OldAttrs, last'.table))
        => /\ last'.status = "ok"
           /\ InShowTables(NewAttrs, last'.table)
           /\ NewAttrs[last'.table].kind = "Table"
           /\ Count(fs', NewAttrs[last'.table]) = 0]_vars

\* C9: in every reachable state show_tables() of every handle contains no
\* name twice.
C9_TableNamesUnique ==
    \A h \in HandleIds :
        (handles[h].kind = "DataBase" /\ ShowTables(handles[h].attrs).kind = "list")
        => LET names == ShowTables(handles[h].attrs).val IN
           \A i, j \in 1..Len(names) : names[i] = names[j] => i = j

\* C10: for every table name, after a successful create_table(name, schema)
\* show_tables() returns the previous list with name appended, and the
\* registry exposes a handle to the new table under that name while all its
\* earlier table handles and its own name remain usable.
C10_CreateTableKeepsRegistry ==
    [][(last'.op = "create_table" /\ last'.status = "ok")
        => /\ ShowTables(NewAttrs) = PyList(Append(ShowTables(OldAttrs).val, last'.table))
           /\ NewAttrs[last'.table].kind = "Table"
           /\ NewAttrs[last'.table].name = last'.table
           /\ \A n \in DOMAIN OldAttrs :
                OldAttrs[n].kind = "Table" /\ n # last'.table => NewAttrs[n] = OldAttrs[n]
           /\ NewAttrs[AttrName] = OldAttrs[AttrName]]_vars

-----------------------------------------------------------------------------
(* Properties of Table.describe *)

\* The 'columns' entry of the file behind a Table object
FileColumns(fsys, table) == ReadFile(fsys, table.table_filepath).columns

CreateOverExistingStep ==
    /\ last'.op = "create_table" /\ last'.status = "ok"
    /\ Truthy(last'.columns)
    /\ FileExists(fs, TablePath(OldAttrs[AttrName].val, last'.table))

-----------------------------------------------------------------------------
(* Properties of the construction of a Table *)

\* The names for which connect_database constructs a Table without a schema
\* although the directory holds no file '<name>.json'
NamesWithoutFile(fsys, dbName) ==
    {StripJson(f) : f \in DOMAIN fsys[dbName].files} \
        {n \in {StripJson(f) : f \in DOMAIN fsys[dbName].files} :
            FileExists(fsys, TablePath(dbName, n))}

\* C12: constructing a table for a name that has no backing file, without
\* supplying a schema, fails and creates no backing file for that name.
\* connect_database constructs one Table without a schema for every name it
\* derives from the directory.
C12_SchemalessConstructionFails ==
    [][(last'.op = "connect_database" /\ fs[last'.name].exists
          /\ NamesWithoutFile(fs, last'.name) # {})
        => /\ last'.status # "ok"
           /\ \A n \in NamesWithoutFile(fs, last'.name) :
                ~FileExists(fs', TablePath(last'.name, n))]_vars

-----------------------------------------------------------------------------
(* Properties of the table files over time *)

IsPrefix(a, b) == Len(a) <= Len(b) /\ SubSeq(b, 1, Len(a)) = a

\* C13: a table is mutated only by append.  Every call leaves every table
\* file in place, with the rows it held as a prefix of the rows it holds
\* afterwards; so the rows of any earlier state are a prefix of the rows of
\* every later state, and no file is ever deleted.
C13_AppendOnly ==
    [][\A d \in DbNames :
          fs[d].exists
          => /\ fs'[d].exists
             /\ \A f \in DOMAIN fs[d].files :
                  /\ f \in DOMAIN fs'[d].files
                  /\ IsPrefix(fs[d].files[f].rows, fs'[d].files[f].rows)]_vars

\* create_table succeeded over a file that holds two different rows, the
\* second appended to the first
C13_Witness ==
    /\ last.op = "create_table" /\ last.status = "ok"
    /\ LET rows == ReadFile(fs, handles[last.h].attrs[last.table].table_filepath).rows
       IN  Len(rows) = 2 /\ rows[1] # rows[2]

\* Whether a stored value has the kind a column declares: for a date column
\* the stored form of a date, its ISO string; for any other column an
\* instance of the declared type
StoredKindMatches(value, typeName) ==
    IF typeName = "date" THEN value.kind = "str" ELSE IsInstance(value, typeName)

\* Whether the row has exactly the columns' names as fields, each holding a
\* value of the column's kind
RowFitsColumns(row, columns) ==
    /\ columns.kind = "list"
    /\ DOMAIN row = {columns.val[i].name : i \in 1..Len(columns.val)}
    /\ \A i \in 1..Len(columns.val) :
          StoredKindMatches(row[columns.val[i].name], columns.val[i].type)

\* C14: in every reachable state, every row persisted in a table file has a
\* field set equal to the set of column names of the schema stored in that
\* file, and every field's value has the kind declared for its column.
C14_RowsFitFileSchema ==
    \A d \in DbNames :
        fs[d].exists
        => \A f \in DOMAIN fs[d].files :
             \A i \in 1..Len(fs[d].files[f].rows) :
                RowFitsColumns(fs[d].files[f].rows[i], fs[d].files[f].columns)

-----------------------------------------------------------------------------
(* Properties of reading: no row cache *)

\* The rows of the file behind the table n of the registry object h
FileRows(fsys, h, n) == fsys[handles[h].attrs[n].table_filepath.dir]
                            .files[handles[h].attrs[n].table_filepath.file].rows

\* The handles (registry object, name) of the file the step's call works on
SameFileHandles ==
    {hn \in HandleIds \X DOMAIN handles[last'.h].attrs :
        /\ hn[2] \in TablesOf(hn[1])
        /\ handles[hn[1]].attrs[hn[2]].table_filepath = StepTable.table_filepath}

\* C15: no row cache.  count(), all() and query() on any handle return what
\* the backing file holds when they are executed; and after a successful
\* insert through one handle, count(), all() and query() on every handle of
\* the same table, the handles constructed before the insert included,
\* count and return the inserted row.
C15_NoRowCache ==
    [][/\ last'.op = "count"
          => last'.value = Len(FileRows(fs, last'.h, last'.table))
       /\ last'.op = "all"
          => /\ Len(last'.value) = Len(FileRows(fs, last'.h, last'.table))
             /\ \A i \in 1..Len(last'.value) :
                  last'.value[i] = FileRows(fs, last'.h, last'.table)[i]
       /\ last'.op = "query"
          => last'.value = SelectSeq(FileRows(fs, last'.h, last'.table),
                                LAMBDA row : RowMatches(row, last'.kwargs))
       /\ (InsertStep /\ last'.status = "ok")
          => \A hn \in SameFileHandles :
               LET table == handles'[hn[1]].attrs[hn[2]]
                   row == FormatRow(StepCols, StepArgs)
               IN  /\ Count(fs', table) = Count(fs, table) + 1
                   /\ LET rows == All(fs', table) IN
                      Len(rows) = Count(fs', table) /\ rows[Len(rows)] = row
                   /\ LET found == Query(fs', table, <<>>) IN
                      found # <<>> /\ found[Len(found)] = row]_vars

\* A row was inserted through one registry object into a table that
\* another registry object holds a handle of, with another schema: the
\* other handle counts two rows and its all() ends with the inserted row
C15_Witness ==
    /\ last.op = "insert" /\ last.status = "ok"
    /\ \E h \in HandleIds \ {last.h} :
          /\ last.table \in TablesOf(h)
          /\ handles[h].attrs[last.table].table_filepath
                = handles[last.h].attrs[last.table].table_filepath
          /\ handles[h].attrs[last.table].columns
                # handles[last.h].attrs[last.table].columns
          /\ Count(fs, handles[h].attrs[last.table]) = 2
          /\ All(fs, handles[h].attrs[last.table])[2]
                = FormatRow(handles[last.h].attrs[last.table].columns.val, last.args)

-----------------------------------------------------------------------------
(* Properties of the stored form of values *)

\* C18: every value that validation accepts for a date column, values of a
\* subclass of date included, is stored by insert as its ISO-8601 string and
\* every other accepted value is stored unchanged; so every argument list
\* that passes validation is appended, and insert raises nothing but
\* ValidationError.
C18_ValidatedRowsAreStored ==
    [][InsertStep
        => /\ last'.status \in {"ok", "ValidationError"}
           /\ ValidateRow(StepCols, StepArgs).valid
              => /\ last'.status = "ok"
                 /\ Len(RowsAfter) = Len(RowsBefore) + 1
                 /\ DistinctNames(StepCols)
                    => \A i \in 1..Len(StepCols) :
                         RowsAfter[Len(RowsAfter)][StepCols[i].name]
                           = IF StepCols[i].type = "date"
                             THEN PyStr(IsoFormat(StepArgs[i]))
                             ELSE StepArgs[i]]_vars

-----------------------------------------------------------------------------
(* Frame properties *)

\* C19: an insert on one table, successful or failing, leaves unchanged the
\* 'columns' entry of that table's file, the rows and columns of every other
\* table of the database, and show_tables() of every handle; query, all,
\* count, describe and show_tables change no persisted state at all.
C19_Frame ==
    [][/\ last'.op = "insert"
          => /\ \A d \in DbNames :
                  /\ fs'[d].exists = fs[d].exists
                  /\ fs[d].exists
                     => /\ DOMAIN fs'[d].files = DOMAIN fs[d].files
                        /\ \A f \in DOMAIN fs[d].files :
                             /\ fs'[d].files[f].columns = fs[d].files[f].columns
                             /\ [dir |-> d, file |-> f] # StepTable.table_filepath
                                => fs'[d].files[f] = fs[d].files[f]
             /\ \A h \in HandleIds :
                  handles[h].kind = "DataBase"
                  => /\ handles'[h].kind = "DataBase"
                     /\ ShowTables(handles'[h].attrs) = ShowTables(handles[h].attrs)
       /\ last'.op \in {"query", "all", "count", "describe", "show_tables"}
          => fs' = fs]_vars

\* A row was inserted into one table while the other table of the
\* database, with another schema, holds a row
C19_Witness ==
    /\ last.op = "insert" /\ last.status = "ok"
    /\ LET path == handles[last.h].attrs[last.table].table_filepath IN
       /\ Len(ReadFile(fs, path).rows) = 1
       /\ \E f \in DOMAIN fs[path.dir].files \ {path.file} :
             /\ Len(fs[path.dir].files[f].rows) = 1
             /\ fs[path.dir].files[f].columns # ReadFile(fs, path).columns

-----------------------------------------------------------------------------
(* Properties of the text of the table files *)

\* C17: under sequential execution every table file is, after every call, a
\* well-formed document {columns, rows}: the file holds the text written
\* last and nothing after it, and every rewrite is at least as long as the
\* content it overwrites.
C17_RewriteCoversOldContent ==
    [][\A d \in DbNames :
          fs'[d].exists
          => \A f \in DOMAIN fs'[d].files :
               LET new == fs'[d].files[f] IN
               /\ new.size = new.text
               /\ (fs[d].exists /\ f \in DOMAIN fs[d].files /\ fs[d].files[f] # new)
                  => new.text >= fs[d].files[f].size]_vars

\* The second insert into a table has rewritten a file that the first
\* insert had written with indent=4, with a row whose text is shorter than
\* that of the row stored first
C17_Witness ==
    /\ last.op = "insert" /\ last.status = "ok"
    /\ LET content == ReadFile(fs, handles[last.h].attrs[last.table].table_filepath) IN
       /\ Len(content.rows) = 2
       /\ RowLen(content.rows[2], TRUE) < RowLen(content.rows[1], TRUE)
       /\ content.size = content.text
       /\ content.text = DocumentLen(content, TRUE)

-----------------------------------------------------------------------------
(* Properties of interleaved inserts *)

\* C16: insert holds no lock over its read-modify-write.  The write of an
\* insert that returns success stores the rows the insert loaded plus its
\* row, whatever the file holds by then; so when two inserts load the same
\* rows before either writes, both return success and the row written by
\* the first is lost.
C16_NoLockOverReadModifyWrite ==
    [][\A p \in Procs :
          (calls[p].pc = "loaded" /\ calls'[p].pc = "returned"
             /\ calls'[p].status = "ok")
          => ReadFile(fs', calls[p].table_filepath).rows
               = Append(calls[p].data.rows, calls[p].row)]_vars

\* A lost update: two inserts on the same file loaded the same rows, both
\* returned success, and the file holds one row more than they loaded, the
\* row of one of them
C16_Witness ==
    /\ calls["p1"].pc = "returned" /\ calls["p1"].status = "ok"
    /\ calls["p2"].pc = "returned" /\ calls["p2"].status = "ok"
    /\ calls["p1"].table_filepath = calls["p2"].table_filepath
    /\ calls["p1"].data = calls["p2"].data
    /\ calls["p1"].row # calls["p2"].row
    /\ LET rows == ReadFile(fs, calls["p1"].table_filepath).rows IN
       /\ Len(rows) = Len(calls["p1"].data.rows) + 1
       /\ Len(rows) < Len(calls["p1"].data.rows) + 2
       /\ rows[Len(rows)] \in {calls["p1"].row, calls["p2"].row}

-----------------------------------------------------------------------------
(* Properties of the open files *)

\* No table operation is in progress: no insert is between its load and
\* its write, and no result of query() or all() is still being advanced by
\* its caller
NoOperationInProgress ==
    \A p \in Procs :
        /\ calls[p].pc # "loaded"
        /\ calls[p].pc \in {"created", "suspended"} => ~calls[p].advancing

\* C20: file handles are released on every exit path: whenever no table
\* operation is in progress (each insert, count, describe has returned or
\* raised, and each query()/all() result is no longer being advanced by its
\* caller), no file opened by a table operation is still open.
C20_NoFileOpenWhenIdle ==
    NoOperationInProgress => OpenFiles(calls) = {}

====
